---------------------------- MODULE Spec2Model ----------------------------
(***************************************************************************)
(* micro-dns (src/src/main.go): a zone file is parsed into a map           *)
(* name -> Record (loadZoneFile), a background goroutine re-parses it when *)
(* its modification time advances (reloadZoneIfChanged), and every request *)
(* is resolved against the shared map and optionally forwarded to an       *)
(* upstream resolver (handleDNSRequest).                                   *)
(*                                                                         *)
(* Go strings are modelled as sequences of one-character strings, so that  *)
(* strings.ToLower, strings.ToUpper, strings.Fields, strings.Join,         *)
(* dns.Fqdn, strconv.ParseUint, strconv.Atoi and net.ParseIP are computed  *)
(* character by character.                                                 *)
(***************************************************************************)
EXTENDS Integers, Sequences, FiniteSets, TLC

(***************************************************************************)
(* Bounds of the model.                                                    *)
(***************************************************************************)
\* longest zone text, in lines, of the parser/resolver specification
MaxLines == 2
\* most questions in one request of the request-handling specification
MaxQuestions == 2
\* latest modification time the environment gives the zone file
MaxTime == 2

(***************************************************************************)
(* Characters and strings.                                                 *)
(***************************************************************************)
LowerLetters ==
  << "a", "b", "c", "d", "e", "f", "g", "h", "i", "j", "k", "l", "m",
     "n", "o", "p", "q", "r", "s", "t", "u", "v", "w", "x", "y", "z" >>

UpperLetters ==
  << "A", "B", "C", "D", "E", "F", "G", "H", "I", "J", "K", "L", "M",
     "N", "O", "P", "Q", "R", "S", "T", "U", "V", "W", "X", "Y", "Z" >>

Digits == << "0", "1", "2", "3", "4", "5", "6", "7", "8", "9" >>

IsUpperChar(c) == \E i \in 1..Len(UpperLetters) : UpperLetters[i] = c

IsLowerChar(c) == \E i \in 1..Len(LowerLetters) : LowerLetters[i] = c

IsDigit(c) == \E i \in 1..Len(Digits) : Digits[i] = c

DigitVal(c) == (CHOOSE i \in 1..Len(Digits) : Digits[i] = c) - 1

IsSpace(c) == c \in {" ", "\t"}

ToLowerChar(c) ==
  IF IsUpperChar(c)
    THEN LowerLetters[CHOOSE i \in 1..Len(UpperLetters) : UpperLetters[i] = c]
    ELSE c

ToUpperChar(c) ==
  IF IsLowerChar(c)
    THEN UpperLetters[CHOOSE i \in 1..Len(LowerLetters) : LowerLetters[i] = c]
    ELSE c

\* strings.ToLower
ToLower(s) == [i \in 1..Len(s) |-> ToLowerChar(s[i])]

\* strings.ToUpper
ToUpper(s) == [i \in 1..Len(s) |-> ToUpperChar(s[i])]

HasUpper(s) == \E i \in 1..Len(s) : IsUpperChar(s[i])

\* strings.HasPrefix(s, c) for a one-character prefix
HasPrefixChar(s, c) == Len(s) > 0 /\ s[1] = c

RECURSIVE TrimLeft(_)
TrimLeft(s) ==
  IF s # << >> /\ IsSpace(s[1]) THEN TrimLeft(Tail(s)) ELSE s

RECURSIVE TrimRight(_)
TrimRight(s) ==
  IF s # << >> /\ IsSpace(s[Len(s)])
    THEN TrimRight(SubSeq(s, 1, Len(s) - 1))
    ELSE s

\* strings.TrimSpace
TrimSpace(s) == TrimRight(TrimLeft(s))

\* length of the longest prefix of s without white space
WordLen(s) ==
  IF \E i \in 1..Len(s) : IsSpace(s[i])
    THEN (CHOOSE i \in 1..Len(s) :
            IsSpace(s[i]) /\ \A j \in 1..(i - 1) : ~IsSpace(s[j])) - 1
    ELSE Len(s)

\* strings.Fields: the maximal runs of non-space characters
RECURSIVE Fields(_)
Fields(s) ==
  IF s = << >> THEN << >>
  ELSE IF IsSpace(s[1]) THEN Fields(Tail(s))
  ELSE << SubSeq(s, 1, WordLen(s)) >> \o Fields(SubSeq(s, WordLen(s) + 1, Len(s)))

\* strings.Join(fs, " ")
RECURSIVE JoinSpace(_)
JoinSpace(fs) ==
  IF fs = << >> THEN << >>
  ELSE IF Len(fs) = 1 THEN fs[1]
  ELSE fs[1] \o << " " >> \o JoinSpace(Tail(fs))

\* dns.Fqdn: a trailing dot is appended unless the name ends in one
Fqdn(s) ==
  IF Len(s) > 0 /\ s[Len(s)] = "." THEN s ELSE s \o << "." >>

\* dns.IsDomainName applied to an FQDN without escapes: no leading dot
\* (except the root), no two dots back to back, no label of 64 or more
IsDomainName(s) ==
  /\ Len(s) > 0
  /\ ~(s[1] = "." /\ Len(s) > 1)
  /\ \A i \in 2..Len(s) : ~(s[i] = "." /\ s[i - 1] = "." )
  /\ \A i \in 1..Len(s), j \in 1..Len(s) :
       (i <= j /\ \A k \in i..j : s[k] # ".") => (j - i + 1) < 64

RECURSIVE DecVal(_)
DecVal(s) ==
  IF s = << >> THEN 0
  ELSE DecVal(SubSeq(s, 1, Len(s) - 1)) * 10 + DigitVal(s[Len(s)])

RECURSIVE StripZeros(_)
StripZeros(s) ==
  IF Len(s) > 1 /\ s[1] = "0" THEN StripZeros(Tail(s)) ELSE s

\* the decimal digits of 2^32 - 1
MaxUint32Digits == << "4", "2", "9", "4", "9", "6", "7", "2", "9", "5" >>

\* s and t are digit strings of the same length: s > t as numbers
DigitsGreater(s, t) ==
  \E i \in 1..Len(s) :
    /\ DigitVal(s[i]) > DigitVal(t[i])
    /\ \A j \in 1..(i - 1) : s[j] = t[j]

\* strconv.ParseUint(s, 10, 32): digits only, value at most 2^32 - 1.
\* The value is computed for numerals of at most nine significant digits,
\* which is what the zone texts of this model hold.
ParseUint32(s) ==
  IF s = << >> \/ \E i \in 1..Len(s) : ~IsDigit(s[i])
    THEN [ok |-> FALSE, val |-> 0]
  ELSE IF \/ Len(StripZeros(s)) > Len(MaxUint32Digits)
          \/ /\ Len(StripZeros(s)) = Len(MaxUint32Digits)
             /\ DigitsGreater(StripZeros(s), MaxUint32Digits)
    THEN [ok |-> FALSE, val |-> 0]
  ELSE [ok |-> TRUE, val |-> DecVal(StripZeros(s))]

\* strconv.Atoi: an optional sign, then digits only
Atoi(s) ==
  LET signed == Len(s) > 0 /\ s[1] \in {"+", "-"}
      body   == IF signed THEN Tail(s) ELSE s
  IN  IF body = << >> \/ \E i \in 1..Len(body) : ~IsDigit(body[i])
        THEN [ok |-> FALSE, val |-> 0]
        ELSE [ok |-> TRUE,
              val |-> IF signed /\ s[1] = "-" THEN 0 - DecVal(body) ELSE DecVal(body)]

\* the conversion uint16(pref) of an int
Uint16(n) == n % 65536

(***************************************************************************)
(* net.IP: a sequence of bytes, << >> for nil.                             *)
(***************************************************************************)
NilIP == << >>

\* the pieces of s between dots
RECURSIVE SplitDots(_)
SplitDots(s) ==
  IF \E i \in 1..Len(s) : s[i] = "."
    THEN LET d == CHOOSE i \in 1..Len(s) :
                    s[i] = "." /\ \A j \in 1..(i - 1) : s[j] # "."
         IN  << SubSeq(s, 1, d - 1) >> \o SplitDots(SubSeq(s, d + 1, Len(s)))
    ELSE << s >>

\* one decimal octet of a dotted quad: 1 to 3 digits, no leading zero, at most 255
IsOctet(p) ==
  /\ Len(p) \in 1..3
  /\ \A i \in 1..Len(p) : IsDigit(p[i])
  /\ (Len(p) > 1 => p[1] # "0")
  /\ DecVal(p) <= 255

\* the 16-byte form net.ParseIP gives an IPv4 address
V4InV6(b) == << 0, 0, 0, 0, 0, 0, 0, 0, 0, 0, 255, 255 >> \o b

HexDigits == << "0", "1", "2", "3", "4", "5", "6", "7", "8", "9",
                "a", "b", "c", "d", "e", "f" >>

IsHexDigit(c) == \E i \in 1..Len(HexDigits) : HexDigits[i] = ToLowerChar(c)

HexDigitVal(c) == (CHOOSE i \in 1..Len(HexDigits) : HexDigits[i] = ToLowerChar(c)) - 1

RECURSIVE HexVal(_)
HexVal(s) ==
  IF s = << >> THEN 0
  ELSE HexVal(SubSeq(s, 1, Len(s) - 1)) * 16 + HexDigitVal(s[Len(s)])

\* net.ParseIP. Dotted quads are parsed in full; of the IPv6 literals the model
\* parses the form "::h" (one group of 1 to 4 hex digits after "::"), which is
\* the form its zone texts hold.
ParseIP(s) ==
  IF \E i \in 1..Len(s) : s[i] = ":"
    THEN IF /\ Len(s) \in 3..6
            /\ s[1] = ":" /\ s[2] = ":"
            /\ \A i \in 3..Len(s) : IsHexDigit(s[i])
           THEN LET v == HexVal(SubSeq(s, 3, Len(s)))
                IN  << 0, 0, 0, 0, 0, 0, 0, 0, 0, 0, 0, 0, 0, 0, v \div 256, v % 256 >>
           ELSE NilIP
    ELSE LET parts == SplitDots(s)
         IN  IF Len(parts) = 4 /\ \A i \in 1..4 : IsOctet(parts[i])
               THEN V4InV6([i \in 1..4 |-> DecVal(parts[i])])
               ELSE NilIP

\* net.IP.To4: the 4-byte form of an IPv4 address, nil for any other address
To4(ip) ==
  IF Len(ip) = 4 THEN ip
  ELSE IF /\ Len(ip) = 16
          /\ \A i \in 1..10 : ip[i] = 0
          /\ ip[11] = 255 /\ ip[12] = 255
    THEN SubSeq(ip, 13, 16)
  ELSE NilIP

(***************************************************************************)
(* Record and the zone parser (loadZoneFile).                              *)
(***************************************************************************)
Record(type, ttl, data, pref) ==
  [Type |-> type, TTL |-> ttl, Data |-> data, Pref |-> pref]

\* the map with no entry (make(map[string]Record))
EmptyMap == << >>

\* an assignment that keeps the record a name already has
MapPutIfAbsent(recs, name, rec) ==
  [k \in (DOMAIN recs) \cup {name} |-> IF k \in DOMAIN recs THEN recs[k] ELSE rec]

\* recs[name] = rec
MapPut(recs, name, rec) ==
  [k \in (DOMAIN recs) \cup {name} |-> IF k = name THEN rec ELSE recs[k]]

TypeA == << "A" >>
TypeCNAME == << "C", "N", "A", "M", "E" >>
TypeTXT == << "T", "X", "T" >>
TypeMX == << "M", "X" >>
ClassIN == << "I", "N" >>

\* a line the loop skips before splitting it: blank, or a comment
IsSkippedLine(line) ==
  \/ TrimSpace(line) = << >>
  \/ HasPrefixChar(TrimSpace(line), ";")
  \/ HasPrefixChar(TrimSpace(line), "#")

\* the record a line defines, when the line passes every validation
LineRecord(fields) ==
  LET ttl   == ParseUint32(fields[2]).val
      rtype == ToUpper(fields[4])
  IN  CASE rtype = TypeA     -> Record("A", ttl, fields[5], 0)
        [] rtype = TypeCNAME -> Record("CNAME", ttl, Fqdn(fields[5]), 0)
        [] rtype = TypeTXT   -> Record("TXT", ttl, JoinSpace(SubSeq(fields, 5, Len(fields))), 0)
        [] rtype = TypeMX    -> Record("MX", ttl, Fqdn(fields[6]), Uint16(Atoi(fields[5]).val))

\* the line reaches one of the assignments recs[name] = Record{...}
LineStores(line) ==
  LET fields == Fields(TrimSpace(line))
  IN  /\ ~IsSkippedLine(line)
      /\ Len(fields) >= 5
      /\ ParseUint32(fields[2]).ok
      /\ ToUpper(fields[3]) = ClassIN
      /\ LET rtype == ToUpper(fields[4])
         IN  \/ rtype = TypeA /\ ParseIP(fields[5]) # NilIP
             \/ rtype = TypeCNAME /\ IsDomainName(Fqdn(fields[5]))
             \/ rtype = TypeTXT
             \/ /\ rtype = TypeMX
                /\ Len(fields) >= 6
                /\ Atoi(fields[5]).ok
                /\ IsDomainName(Fqdn(fields[6]))

\* the key a line is stored under: dns.Fqdn(fields[0]), not case-folded
LineName(line) == Fqdn(Fields(TrimSpace(line))[1])

\* a loop iteration in which a line that is not stored removes the entry of
\* its name
ParseLineClearing(recs, line) ==
  IF LineStores(line)
    THEN MapPut(recs, LineName(line), LineRecord(Fields(TrimSpace(line))))
  ELSE IF IsSkippedLine(line) THEN recs
  ELSE [k \in (DOMAIN recs) \ { LineName(line) } |-> recs[k]]

\* one iteration of the scanner loop
ParseLine(recs, line) ==
  IF LineStores(line)
    THEN MapPut(recs, LineName(line), LineRecord(Fields(TrimSpace(line))))
    ELSE recs

\* the map after the first n lines of text went through the loop
RECURSIVE ScanLines(_, _)
ScanLines(text, n) ==
  IF n = 0 THEN EmptyMap ELSE ParseLine(ScanLines(text, n - 1), text[n])

(***************************************************************************)
(* The zone texts the model reads. A text is a sequence of lines, as the   *)
(* scanner delivers them.                                                  *)
(***************************************************************************)
NameA == << "a", "." >>
NameUpperA == << "A", "." >>
NameB == << "b", "." >>
NameBNoDot == << "b" >>
NameN == << "n", "." >>
Ttl300 == << "3", "0", "0" >>
Ttl060 == << "0", "6", "0" >>
TtlTooBig == << "4", "2", "9", "4", "9", "6", "7", "2", "9", "6" >>
TtlWord == << "x" >>
IPv4Lit == << "1", ".", "2", ".", "3", ".", "4" >>
IPv4Other == << "9", ".", "9", ".", "9", ".", "9" >>
IPv6Lit == << ":", ":", "1" >>
IPBad == << "1", ".", "2", ".", "3" >>

LineA == JoinSpace(<< NameA, Ttl300, ClassIN, TypeA, IPv4Lit >>)
LineA6 == JoinSpace(<< NameA, Ttl060, ClassIN, TypeA, IPv6Lit >>)
LineUpperA == JoinSpace(<< NameUpperA, Ttl300, ClassIN, TypeA, IPv4Other >>)
LineCname == << " ", "\t" >> \o
  JoinSpace(<< NameBNoDot, Ttl060, << "i", "n" >>, << "c", "n", "a", "m", "e" >>, << "a" >> >>)
LineTxt == JoinSpace(<< NameA, Ttl300, ClassIN, TypeTXT, << "\"", "x" >>, << >>, << "y", "\"" >> >>)
LineMx == JoinSpace(<< NameB, Ttl300, ClassIN, TypeMX, << "7", "0", "0", "0", "0" >>, << "a" >> >>)
LineMxLow == JoinSpace(<< NameB, Ttl060, ClassIN, TypeMX, << "1", "0" >>, NameA >>)
LineMxNeg == JoinSpace(<< NameB, Ttl060, ClassIN, TypeMX, << "-", "1" >>, NameA >>)
LineN == JoinSpace(<< NameN, Ttl060, ClassIN, TypeA, IPv4Other >>)
LineBadTtl == JoinSpace(<< NameA, TtlWord, ClassIN, TypeA, IPv4Lit >>)
LineBigTtl == JoinSpace(<< NameA, TtlTooBig, ClassIN, TypeA, IPv4Lit >>)
LineBadClass == JoinSpace(<< NameA, Ttl300, << "C", "H" >>, TypeA, IPv4Lit >>)
LineBadType == JoinSpace(<< NameA, Ttl300, ClassIN, << "S", "R", "V" >>, NameB >>)
LineBadIP == JoinSpace(<< NameA, Ttl300, ClassIN, TypeA, IPBad >>)
LineBadTarget == JoinSpace(<< NameB, Ttl300, ClassIN, TypeCNAME, << "a", ".", ".", "b" >> >>)
LineShort == JoinSpace(<< NameA, Ttl300, ClassIN, TypeA >>)
LineMxShort == JoinSpace(<< NameB, Ttl300, ClassIN, TypeMX, << "1", "0" >> >>)
LineMxBadPref == JoinSpace(<< NameB, Ttl300, ClassIN, TypeMX, << "x" >>, NameA >>)
LineComment == << ";", " ", "a" >>

\* the lines of the parser/resolver specification
ZoneLines ==
  { LineA, LineA6, LineUpperA, LineCname, LineTxt, LineMx, LineMxLow, LineMxNeg,
    LineBadTtl, LineBigTtl, LineBadClass, LineBadType, LineBadIP,
    LineBadTarget, LineShort, LineMxShort, LineMxBadPref, LineComment }

\* every text of at most n lines
TextsUpTo(n) == UNION { [1..k -> ZoneLines] : k \in 0..n }

\* the versions of the zone file of the reload specification
ZoneVersions ==
  { << LineA >>, << LineCname, LineN >>, << LineUpperA, LineA6 >> }

\* the zone files of the request-handling specification
ServeTexts ==
  { << LineA, LineMx >>, << LineCname >>, << LineTxt, LineUpperA >> }

(***************************************************************************)
(* State.                                                                  *)
(***************************************************************************)
VARIABLES
  config,            \* Config: FallbackDNS ("" when no upstream is configured)
  fs,                \* the zone file: its text, modification time and condition
  pcMain,            \* where main is
  records,           \* the shared map: [isNil, m]
  stale,             \* earlier contents of the map records points at that a
                     \* reader without synchronization may still observe
  hostsFileModTime,  \* the recorded modification time, 0 for the zero time.Time
  sup,               \* the goroutine reloadZoneIfChanged and its locals
  hs,                \* the running handleDNSRequest calls and their locals
  installed,         \* history: every complete map records has pointed at
  snapshotModTime    \* history: the modification time the file had when the
                     \* map records points at was parsed from it

vars ==
  << config, fs, pcMain, records, stale, hostsFileModTime, sup, hs, installed,
     snapshotModTime >>

\* the handler goroutines; they share nothing but the reads of records, so one
\* stands for each of them
Handlers == { "h1" }

NoUpstream == ""
UpstreamAddr == "8.8.8.8:53"

NilStore == [isNil |-> TRUE, m |-> EmptyMap]
Store(m) == [isNil |-> FALSE, m |-> m]

(***************************************************************************)
(* loadZoneFile (main.go 72-147). f is the file as the call finds it; when *)
(* reading fails, it fails after k lines went through the loop. from is     *)
(* history: the modification time of the file the call read.               *)
(***************************************************************************)
loadZoneFile(f, k) ==
  IF f.state = "noent"
    THEN [recs |-> NilStore, err |-> TRUE, partial |-> {}, from |-> f.mtime]
  ELSE IF f.state = "ioerr"
    THEN [recs |-> Store(ScanLines(f.text, k)), err |-> TRUE,
          partial |-> { ScanLines(f.text, j) : j \in 0..k }, from |-> f.mtime]
  ELSE [recs |-> Store(ScanLines(f.text, Len(f.text))), err |-> FALSE,
        partial |-> { ScanLines(f.text, j) : j \in 0..Len(f.text) }
                      \ { ScanLines(f.text, Len(f.text)) },
        from |-> f.mtime]

\* os.Stat: the modification time, or an error
StatErr(f) == f.state = "noent"

(***************************************************************************)
(* DNS messages, as far as handleDNSRequest reads and writes them.         *)
(***************************************************************************)
Question(name, qtype) == [Name |-> name, Qtype |-> qtype]

Msg(authoritative, rcode, answer) ==
  [Response |-> TRUE, Authoritative |-> authoritative, Rcode |-> rcode, Answer |-> answer]

NoMsg == [Response |-> FALSE, Authoritative |-> FALSE, Rcode |-> "NOERROR", Answer |-> << >>]

\* one resource record of an answer section; the fields a type does not have are empty
RR(name, rrtype, ttl, a, target, txt, pref, mx) ==
  [Name |-> name, Rrtype |-> rrtype, Ttl |-> ttl, A |-> a, Target |-> target,
   Txt |-> txt, Preference |-> pref, Mx |-> mx]

\* the replies the upstream resolver may give
UpstreamReplies ==
  { Msg(FALSE, "NXDOMAIN", << >>),
    Msg(FALSE, "NOERROR", << RR(NameN, "A", 60, << 8, 8, 8, 8 >>, << >>, << >>, 0, << >>) >>),
    Msg(TRUE, "NOERROR", << >>) }

\* a lookup key that is made an FQDN without being lower-cased
QueryKeyNoFold(qname) == Fqdn(qname)

\* the key of the lookup (main.go 180): lower-cased, then made an FQDN
QueryKey(qname) == Fqdn(ToLower(qname))

\* a resolver that follows an alias found under an A query and adds the
\* target's A record
AnswerForFollowingAlias(q, view) ==
  LET name == Fqdn(ToLower(q.Name))
  IN  IF name \notin DOMAIN view THEN << >>
      ELSE LET rec == view[name]
           IN  CASE q.Qtype = "A" /\ rec.Type = "A" ->
                      << RR(q.Name, "A", rec.TTL, To4(ParseIP(rec.Data)), << >>, << >>, 0, << >>) >>
                 [] q.Qtype = "A" /\ rec.Type = "CNAME" ->
                      << RR(q.Name, "CNAME", rec.TTL, NilIP, rec.Data, << >>, 0, << >>) >> \o
                      (IF rec.Data \in DOMAIN view /\ view[rec.Data].Type = "A"
                         THEN << RR(rec.Data, "A", view[rec.Data].TTL,
                                    To4(ParseIP(view[rec.Data].Data)), << >>, << >>, 0, << >>) >>
                         ELSE << >>)
                 [] q.Qtype = "CNAME" /\ rec.Type = "CNAME" ->
                      << RR(q.Name, "CNAME", rec.TTL, NilIP, rec.Data, << >>, 0, << >>) >>
                 [] q.Qtype = "TXT" /\ rec.Type = "TXT" ->
                      << RR(q.Name, "TXT", rec.TTL, NilIP, << >>, << rec.Data >>, 0, << >>) >>
                 [] q.Qtype = "MX" /\ rec.Type = "MX" ->
                      << RR(q.Name, "MX", rec.TTL, NilIP, << >>, << >>, rec.Pref, rec.Data) >>
                 [] OTHER -> << >>

\* a resolver that answers every supported query type with a stored CNAME,
\* as line 190 does for A queries
AnswerForAliasUnderAnyType(q, view) ==
  LET name == Fqdn(ToLower(q.Name))
  IN  IF name \notin DOMAIN view THEN << >>
      ELSE LET rec == view[name]
           IN  CASE q.Qtype = "A" /\ rec.Type = "A" ->
                      << RR(q.Name, "A", rec.TTL, To4(ParseIP(rec.Data)), << >>, << >>, 0, << >>) >>
                 [] q.Qtype \in { "A", "CNAME", "TXT", "MX" } /\ rec.Type = "CNAME" ->
                      << RR(q.Name, "CNAME", rec.TTL, NilIP, rec.Data, << >>, 0, << >>) >>
                 [] q.Qtype = "TXT" /\ rec.Type = "TXT" ->
                      << RR(q.Name, "TXT", rec.TTL, NilIP, << >>, << rec.Data >>, 0, << >>) >>
                 [] q.Qtype = "MX" /\ rec.Type = "MX" ->
                      << RR(q.Name, "MX", rec.TTL, NilIP, << >>, << >>, rec.Pref, rec.Data) >>
                 [] OTHER -> << >>

\* the records one question appends to m.Answer (main.go 182-226), given the
\* map the lookup read
AnswerFor(q, view) ==
  LET name == QueryKey(q.Name)
  IN  IF name \notin DOMAIN view THEN << >>
      ELSE LET rec == view[name]
           IN  CASE q.Qtype = "A" /\ rec.Type = "A" ->
                      << RR(q.Name, "A", rec.TTL, To4(ParseIP(rec.Data)), << >>, << >>, 0, << >>) >>
                 [] q.Qtype = "A" /\ rec.Type = "CNAME" ->
                      << RR(q.Name, "CNAME", rec.TTL, NilIP, rec.Data, << >>, 0, << >>) >>
                 [] q.Qtype = "CNAME" /\ rec.Type = "CNAME" ->
                      << RR(q.Name, "CNAME", rec.TTL, NilIP, rec.Data, << >>, 0, << >>) >>
                 [] q.Qtype = "TXT" /\ rec.Type = "TXT" ->
                      << RR(q.Name, "TXT", rec.TTL, NilIP, << >>, << rec.Data >>, 0, << >>) >>
                 [] q.Qtype = "MX" /\ rec.Type = "MX" ->
                      << RR(q.Name, "MX", rec.TTL, NilIP, << >>, << >>, rec.Pref, rec.Data) >>
                 [] OTHER -> << >>

\* a default branch that is taken whether or not the name was found
HitsDefaultWithoutLookup(q, view) == q.Qtype \notin { "A", "CNAME", "TXT", "MX" }

\* a default branch that is also taken when the stored record's type does not
\* match a supported query type
HitsDefaultOnMismatch(q, view) ==
  /\ QueryKey(q.Name) \in DOMAIN view
  /\ AnswerFor(q, view) = << >>

\* the question reaches the default branch of the switch (main.go 223-224)
HitsDefault(q, view) ==
  /\ QueryKey(q.Name) \in DOMAIN view
  /\ q.Qtype \notin { "A", "CNAME", "TXT", "MX" }

\* a flag answered that only remembers the last question
AnsweredLast(before, ans) == ans # << >>

\* the flag answered after a question that appended ans
Answered(before, ans) == before \/ ans # << >>

\* the handler's locals after the loop body ran for question i against view
ResolveStep(st, view) ==
  LET q   == st.r[st.i]
      ans == AnswerFor(q, view)
  IN  [st EXCEPT
         !.m = [@ EXCEPT !.Answer = @ \o ans,
                         !.Rcode = IF HitsDefault(q, view) THEN "NOTIMP" ELSE @],
         !.answered = Answered(@, ans),
         !.lookups = Append(@, [name |-> QueryKey(q.Name),
                                found |-> QueryKey(q.Name) \in DOMAIN view,
                                view |-> view]),
         !.i = @ + 1]

\* whether the request goes to the upstream (main.go 229)
WantsForward(st) == ~st.answered /\ config.FallbackDNS # NoUpstream

IdleHandler ==
  [pc |-> "idle", r |-> << >>, i |-> 0, m |-> NoMsg, answered |-> FALSE,
   resp |-> NoMsg, written |-> << >>, nfwd |-> 0, lookups |-> << >>]

\* outcome is history: how the last poll iteration ended; so is from: the
\* modification time of the file newRecords was parsed from
OffSupervisor ==
  [pc |-> "off", info |-> 0, newRecords |-> NilStore, partial |-> {}, from |-> 0,
   outcome |-> "none"]

(***************************************************************************)
(* main (main.go 248-272).                                                 *)
(***************************************************************************)
\* records, err = loadZoneFile(...); log.Fatalf on an error (254-257)
MainLoad ==
  /\ pcMain = "load"
  /\ \E k \in (IF fs.state = "ioerr" THEN 0..Len(fs.text) ELSE {0}) :
       LET res == loadZoneFile(fs, k)
       IN  IF res.err
             THEN /\ pcMain' = "fatal"
                  /\ UNCHANGED << records, installed, snapshotModTime >>
             ELSE /\ pcMain' = "stat"
                  /\ records' = res.recs
                  /\ installed' = { res.recs.m }
                  /\ snapshotModTime' = res.from
  /\ UNCHANGED << config, fs, stale, hostsFileModTime, sup, hs >>

\* info, err := os.Stat(...); hostsFileModTime is set only on success (259-262)
MainStat ==
  /\ pcMain = "stat"
  /\ pcMain' = "go"
  /\ hostsFileModTime' = IF StatErr(fs) THEN hostsFileModTime ELSE fs.mtime
  /\ UNCHANGED << config, fs, records, stale, sup, hs, installed, snapshotModTime >>

\* go reloadZoneIfChanged(), then the server starts (264-269)
MainGo ==
  /\ pcMain = "go"
  /\ pcMain' = "serve"
  /\ sup' = [sup EXCEPT !.pc = "sleep"]
  /\ UNCHANGED << config, fs, records, stale, hostsFileModTime, hs, installed, snapshotModTime >>

(***************************************************************************)
(* reloadZoneIfChanged (main.go 149-162).                                  *)
(***************************************************************************)
\* a test of line 153 with Before in place of After
IsOlder(f) == ~(f.state = "noent") /\ f.mtime < hostsFileModTime

\* a test of line 153 with !Before in place of After
IsNotOlder(f) == ~(f.state = "noent") /\ f.mtime >= hostsFileModTime

\* the condition of line 153
IsNewer(f) == ~StatErr(f) /\ f.mtime > hostsFileModTime

\* the supervisor's locals after os.Stat and the test of line 153
AfterStat(s, f) ==
  IF IsNewer(f)
    THEN [s EXCEPT !.pc = "load", !.info = f.mtime]
    ELSE [s EXCEPT !.info = IF StatErr(f) THEN 0 ELSE f.mtime,
                   !.outcome = IF StatErr(f) THEN "staterr" ELSE "notnewer"]

\* time.Sleep, os.Stat and the test of line 153
SupStat ==
  /\ sup.pc = "sleep"
  /\ sup' = AfterStat(sup, fs)
  /\ UNCHANGED << config, fs, pcMain, records, stale, hostsFileModTime, hs, installed, snapshotModTime >>

\* a supervisor that goes on to install whatever loadZoneFile returned
AfterLoadIgnoringErr(s, res) ==
  [s EXCEPT !.pc = "install", !.newRecords = res.recs, !.partial = res.partial,
            !.from = res.from]

\* the supervisor's locals after loadZoneFile returned res and the test of line 155
AfterLoad(s, res) ==
  IF res.err
    THEN [s EXCEPT !.pc = "sleep", !.outcome = "loaderr"]
    ELSE [s EXCEPT !.pc = "install", !.newRecords = res.recs, !.partial = res.partial,
                   !.from = res.from]

\* newRecords, err := loadZoneFile(...) and the test of line 155
SupLoad ==
  /\ sup.pc = "load"
  /\ \E k \in (IF fs.state = "ioerr" THEN 0..Len(fs.text) ELSE {0}) :
       sup' = AfterLoad(sup, loadZoneFile(fs, k))
  /\ UNCHANGED << config, fs, pcMain, records, stale, hostsFileModTime, hs, installed, snapshotModTime >>

\* what line 156 leaves in the shared variable and in the memory readers see:
\* the assignment is a plain store, so the writes that filled the map are not
\* ordered before it for a reader in another goroutine
Publish(new, partial) == [records |-> new, stale |-> partial]

\* records = newRecords (156)
SupInstall ==
  /\ sup.pc = "install"
  /\ records' = Publish(sup.newRecords, sup.partial).records
  /\ stale' = Publish(sup.newRecords, sup.partial).stale
  /\ installed' = installed \cup { sup.newRecords.m }
  /\ snapshotModTime' = sup.from
  /\ sup' = [sup EXCEPT !.pc = "settime"]
  /\ UNCHANGED << config, fs, pcMain, hostsFileModTime, hs >>

\* hostsFileModTime = info.ModTime() (157)
SupSetTime ==
  /\ sup.pc = "settime"
  /\ hostsFileModTime' = sup.info
  /\ sup' = [sup EXCEPT !.pc = "sleep", !.newRecords = NilStore, !.partial = {},
                        !.from = 0, !.outcome = "reloaded"]
  /\ UNCHANGED << config, fs, pcMain, records, stale, installed, snapshotModTime >>
  /\ UNCHANGED hs

Supervisor == SupStat \/ SupLoad \/ SupInstall \/ SupSetTime

\* the writes that filled the installed map have all reached the readers
Propagate ==
  /\ stale # {}
  /\ stale' = {}
  /\ UNCHANGED << config, fs, pcMain, records, hostsFileModTime, sup, hs, installed, snapshotModTime >>

(***************************************************************************)
(* handleDNSRequest (main.go 170-246), one call per handler h.             *)
(***************************************************************************)
\* the maps the unsynchronized read of line 181 may observe
ReadRecords == { records.m } \cup stale

\* m.SetReply(r); m.Authoritative = true; answered := false (171-175)
Accept(h, r) ==
  /\ pcMain = "serve"
  /\ hs[h].pc = "idle"
  /\ hs' = [hs EXCEPT ![h] = [IdleHandler EXCEPT !.pc = "resolve", !.r = r, !.i = 1,
                                                 !.m = Msg(TRUE, "NOERROR", << >>)]]
  /\ UNCHANGED << config, fs, pcMain, records, stale, hostsFileModTime, sup, installed, snapshotModTime >>

\* one iteration of the loop over r.Question (177-227)
HandleQuestion(h) ==
  /\ hs[h].pc = "resolve"
  /\ hs[h].i <= Len(hs[h].r)
  /\ \E view \in ReadRecords : hs' = [hs EXCEPT ![h] = ResolveStep(@, view)]
  /\ UNCHANGED << config, fs, pcMain, records, stale, hostsFileModTime, sup, installed, snapshotModTime >>

\* after the loop: forward (229-230), or write the local reply (241)
Decide(h) ==
  /\ hs[h].pc = "resolve"
  /\ hs[h].i > Len(hs[h].r)
  /\ hs' = [hs EXCEPT ![h] =
              IF WantsForward(@)
                THEN [@ EXCEPT !.pc = "forward", !.nfwd = @ + 1]
                ELSE [@ EXCEPT !.pc = "done", !.written = Append(@, hs[h].m)]]
  /\ UNCHANGED << config, fs, pcMain, records, stale, hostsFileModTime, sup, installed, snapshotModTime >>

\* a reply that keeps the authoritative flag of the local reply
ForwardedReplyMerged(m, resp) == [resp EXCEPT !.Authoritative = m.Authoritative]

\* the message written when the exchange succeeded (232)
ForwardedReply(m, resp) == resp

\* the exchange succeeded: w.WriteMsg(resp); return (231-236)
ForwardOk(h, resp) ==
  /\ hs[h].pc = "forward"
  /\ hs' = [hs EXCEPT ![h] = [@ EXCEPT !.pc = "done", !.resp = resp,
                                       !.written = Append(@, ForwardedReply(hs[h].m, resp))]]
  /\ UNCHANGED << config, fs, pcMain, records, stale, hostsFileModTime, sup, installed, snapshotModTime >>

\* a local reply that keeps an rcode set during resolution
FailureReplyKeepsRcode(m) ==
  IF m.Rcode = "NOERROR" THEN [m EXCEPT !.Rcode = "SERVFAIL"] ELSE m

\* the local reply after a failed exchange (238)
FailureReply(m) == [m EXCEPT !.Rcode = "SERVFAIL"]

\* a handler that returns after a failed exchange without writing the reply
ForwardFailSilent(h) ==
  /\ hs[h].pc = "forward"
  /\ hs' = [hs EXCEPT ![h] = [@ EXCEPT !.pc = "done", !.m = FailureReply(@)]]
  /\ UNCHANGED << config, fs, pcMain, records, stale, hostsFileModTime, sup, installed, snapshotModTime >>

\* the exchange failed: m.Rcode = SERVFAIL; w.WriteMsg(m) (238-241)
ForwardFail(h) ==
  /\ hs[h].pc = "forward"
  /\ hs' = [hs EXCEPT ![h] = [@ EXCEPT !.pc = "done", !.m = FailureReply(@),
                                       !.written = Append(@, FailureReply(hs[h].m))]]
  /\ UNCHANGED << config, fs, pcMain, records, stale, hostsFileModTime, sup, installed, snapshotModTime >>

\* the call returns; the handler is free for the next request
Return(h) ==
  /\ hs[h].pc = "done"
  /\ hs' = [hs EXCEPT ![h] = IdleHandler]
  /\ UNCHANGED << config, fs, pcMain, records, stale, hostsFileModTime, sup, installed, snapshotModTime >>

(***************************************************************************)
(* The environment: whoever edits the zone file. Every rewrite gives the   *)
(* file a later modification time.                                         *)
(***************************************************************************)
Modify(text, t) ==
  /\ t > fs.mtime
  /\ fs' = [fs EXCEPT !.text = text, !.mtime = t]
  /\ UNCHANGED << config, pcMain, records, stale, hostsFileModTime, sup, hs, installed, snapshotModTime >>

\* the file goes away ("noent"), fails on reading ("ioerr"), or is fine again
SetCondition(c) ==
  /\ c # fs.state
  /\ fs' = [fs EXCEPT !.state = c]
  /\ UNCHANGED << config, pcMain, records, stale, hostsFileModTime, sup, hs, installed, snapshotModTime >>

\* an older version of the file is put back together with its older
\* modification time (a restore from a backup, a copy that keeps times)
Restore(text, t) ==
  /\ t < fs.mtime
  /\ fs' = [fs EXCEPT !.text = text, !.mtime = t]
  /\ UNCHANGED << config, pcMain, records, stale, hostsFileModTime, sup, hs, installed, snapshotModTime >>

FileConditions == { "ok", "noent", "ioerr" }

(***************************************************************************)
(* The reload specification: main, the reload supervisor, one handler and  *)
(* the environment, interleaved.                                           *)
(***************************************************************************)
ReloadNames == { NameA, NameB, NameN }

ReloadRequests == { << Question(n, "A") >> : n \in ReloadNames }

Init ==
  /\ config \in { [FallbackDNS |-> a] : a \in { NoUpstream, UpstreamAddr } }
  /\ fs \in { [text |-> t, mtime |-> 1, state |-> c] : t \in ZoneVersions, c \in FileConditions }
  /\ pcMain = "load"
  /\ records = NilStore
  /\ stale = {}
  /\ hostsFileModTime = 0
  /\ sup = OffSupervisor
  /\ hs = [h \in Handlers |-> IdleHandler]
  /\ installed = {}
  /\ snapshotModTime = 0

Next ==
  \/ MainLoad
  \/ MainStat
  \/ MainGo
  \/ SupStat
  \/ SupLoad
  \/ SupInstall
  \/ SupSetTime
  \/ Propagate
  \/ \E h \in Handlers, r \in ReloadRequests : Accept(h, r)
  \/ \E h \in Handlers : HandleQuestion(h)
  \/ \E h \in Handlers : Decide(h)
  \/ \E h \in Handlers, resp \in UpstreamReplies : ForwardOk(h, resp)
  \/ \E h \in Handlers : ForwardFail(h)
  \/ \E h \in Handlers : Return(h)
  \/ \E text \in ZoneVersions, t \in 1..MaxTime : Modify(text, t)
  \/ \E c \in FileConditions : SetCondition(c)

Spec == Init /\ [][Next]_vars

\* main, the supervisor and the environment alone (no handler writes anything
\* the supervisor reads)
ReloadNext ==
  \/ MainLoad
  \/ MainStat
  \/ MainGo
  \/ SupStat
  \/ SupLoad
  \/ SupInstall
  \/ SupSetTime
  \/ Propagate
  \/ \E text \in ZoneVersions, t \in 1..MaxTime : Modify(text, t)
  \/ \E c \in FileConditions : SetCondition(c)

\* the scheduler runs the supervisor goroutine, and plain stores reach the
\* other processors in the end
\* (weak fairness of SupLoad is written out, with ENABLED <<SupLoad>>_vars as the
\* state predicate it is: SupLoad always leaves "load")
ReloadSpec == Init /\ [][ReloadNext]_vars

FairSpec ==
  /\ ReloadSpec
  /\ WF_vars(SupStat)
  /\ ([]<>(sup.pc # "load") \/ []<><<SupLoad>>_vars)
  /\ WF_vars(SupInstall)
  /\ WF_vars(SupSetTime)
  /\ WF_vars(Propagate)

(***************************************************************************)
(* Claims about reloading.                                                 *)
(***************************************************************************)
\* C1: every lookup of every handler reads a complete Store, one that was or is
\* the active one: never nil, never a map the parser is still filling, never
\* the map of a failed parse
C1_LookupsReadCompleteStores ==
  \A h \in Handlers :
    \A i \in 1..Len(hs[h].lookups) : hs[h].lookups[i].view \in installed

\* the questions a request of any specification may hold
AllQNames == { NameA, NameUpperA, << "a" >>, NameB, << "B" >>, NameN }
AllQtypes == { "A", "CNAME", "TXT", "MX", "AAAA" }
AllQuestions == { Question(n, t) : n \in AllQNames, t \in AllQtypes }

\* a poll iteration that ends in a failure: os.Stat failed, or loadZoneFile did
ReloadFails ==
  \/ sup.pc = "sleep" /\ StatErr(fs) /\ sup' # sup
  \/ sup.pc = "load" /\ fs.state # "ok" /\ sup'.pc # "load"

\* C2: a failed reload attempt leaves the active snapshot and the recorded
\* modification time as they were, every question is answered as before, and
\* the supervisor is back at the top of its loop with the process alive
C2_FailedReloadChangesNothing ==
  [][ReloadFails =>
       /\ records' = records
       /\ hostsFileModTime' = hostsFileModTime
       /\ \A q \in AllQuestions : AnswerFor(q, records'.m) = AnswerFor(q, records.m)
       /\ sup'.pc = "sleep"
       /\ pcMain' = "serve"]_vars

\* a reload attempt failed in loadZoneFile while a non-empty snapshot was active
C2_Witness ==
  /\ sup.outcome = "loaderr"
  /\ sup.pc = "sleep"
  /\ records.m # EmptyMap
  /\ fs.mtime > hostsFileModTime

\* the active snapshot is the parse of the file as it is, readers see all of
\* it, and the recorded modification time is the file's
Synced ==
  /\ records = Store(ScanLines(fs.text, Len(fs.text)))
  /\ stale = {}
  /\ hostsFileModTime = fs.mtime
  /\ \A q \in AllQuestions, view \in ReadRecords :
       AnswerFor(q, view) = AnswerFor(q, ScanLines(fs.text, Len(fs.text)))

\* C3: once the supervisor runs, a file whose modification time is newer than
\* the recorded one and that stays readable and unmodified is eventually the
\* active snapshot, with its modification time recorded
C3_NewerFileIsEventuallyActive ==
  \A t \in 1..MaxTime :
    []((/\ sup.pc # "off"
        /\ fs.mtime = t
        /\ t > hostsFileModTime
        /\ [](fs.mtime = t /\ fs.state = "ok"))
       => <>Synced)

\* the file was modified after startup and the reload has caught up with it
C3_Witness ==
  /\ Synced
  /\ fs.mtime > 1
  /\ sup.outcome = "reloaded"
  /\ NameN \in DOMAIN records.m

(***************************************************************************)
(* The request-handling specification: a zone that never changes, requests *)
(* of up to MaxQuestions questions, with and without an upstream.          *)
(***************************************************************************)
ServeQuestions ==
  { Question(n, t) : n \in { NameA, << "B" >>, NameN }, t \in { "A", "MX", "AAAA" } }

ServeRequests == UNION { [1..k -> ServeQuestions] : k \in 0..MaxQuestions }

ServeInit ==
  /\ config \in { [FallbackDNS |-> a] : a \in { NoUpstream, UpstreamAddr } }
  /\ fs \in { [text |-> t, mtime |-> 1, state |-> "ok"] : t \in ServeTexts }
  /\ pcMain = "load"
  /\ records = NilStore
  /\ stale = {}
  /\ hostsFileModTime = 0
  /\ sup = OffSupervisor
  /\ hs = [h \in Handlers |-> IdleHandler]
  /\ installed = {}
  /\ snapshotModTime = 0

ServeNext ==
  \/ MainLoad
  \/ MainStat
  \/ MainGo
  \/ \E h \in Handlers, r \in ServeRequests : Accept(h, r)
  \/ \E h \in Handlers : HandleQuestion(h)
  \/ \E h \in Handlers : Decide(h)
  \/ \E h \in Handlers, resp \in UpstreamReplies : ForwardOk(h, resp)
  \/ \E h \in Handlers : ForwardFail(h)
  \/ \E h \in Handlers : Return(h)

ServeSpec == ServeInit /\ [][ServeNext]_vars

\* the loop of handler h is over
LoopDone(h) == hs[h].pc \in { "forward", "done" }

\* no question of h's request produced a local answer, judged from the maps
\* its lookups read
NoLocalAnswer(h) ==
  \A i \in 1..Len(hs[h].r) : AnswerFor(hs[h].r[i], hs[h].lookups[i].view) = << >>

\* C4: a request is forwarded exactly when none of its questions produced a
\* local answer and an upstream is configured
C4_ForwardIffNoAnswerAndUpstream ==
  \A h \in Handlers :
    LoopDone(h) =>
      ((hs[h].nfwd > 0) <=> (NoLocalAnswer(h) /\ config.FallbackDNS # NoUpstream))

\* with an upstream configured, a request with an answered question and an
\* unanswered one was answered locally, not forwarded
C4_Witness ==
  \E h \in Handlers :
    /\ hs[h].pc = "done"
    /\ config.FallbackDNS # NoUpstream
    /\ Len(hs[h].r) = 2
    /\ AnswerFor(hs[h].r[1], hs[h].lookups[1].view) # << >>
    /\ AnswerFor(hs[h].r[2], hs[h].lookups[2].view) = << >>
    /\ hs[h].nfwd = 0

\* C5: after a successful exchange the one message written is the upstream's
\* reply, unchanged
C5_UpstreamReplyVerbatim ==
  \A h \in Handlers :
    (hs[h].pc = "done" /\ hs[h].nfwd > 0 /\ hs[h].resp.Response) =>
      hs[h].written = << hs[h].resp >>

\* an upstream NXDOMAIN reached the client although resolution had set NOTIMP
\* on the local, authoritative reply
C5_Witness ==
  \E h \in Handlers :
    /\ hs[h].pc = "done"
    /\ hs[h].nfwd > 0
    /\ hs[h].resp.Response
    /\ hs[h].resp.Rcode = "NXDOMAIN"
    /\ hs[h].m.Rcode = "NOTIMP"
    /\ hs[h].written = << hs[h].resp >>

\* C6: after a failed exchange the one message written is the local reply:
\* authoritative, SERVFAIL, no answer; the exchange was tried once
C6_FailedForwardIsServfail ==
  \A h \in Handlers :
    (hs[h].pc = "done" /\ hs[h].nfwd > 0 /\ ~hs[h].resp.Response) =>
      /\ hs[h].nfwd = 1
      /\ Len(hs[h].written) = 1
      /\ hs[h].written[1] = Msg(TRUE, "SERVFAIL", << >>)

\* the exchange failed for a request whose resolution had set NOTIMP
C6_Witness ==
  \E h \in Handlers :
    /\ hs[h].pc = "done"
    /\ hs[h].nfwd = 1
    /\ ~hs[h].resp.Response
    /\ \E i \in 1..Len(hs[h].r) : HitsDefault(hs[h].r[i], hs[h].lookups[i].view)
    /\ hs[h].written = << Msg(TRUE, "SERVFAIL", << >>) >>

\* every question of h's request names a name without a record in the map
\* its lookup read
AllNamesAbsent(h) ==
  \A i \in 1..Len(hs[h].r) :
    Fqdn(ToLower(hs[h].r[i].Name)) \notin DOMAIN hs[h].lookups[i].view

\* C7: without an upstream, a request for names that have no record gets the
\* local reply with no answer and the success rcode, whatever the query types
C7_UndefinedNameIsEmptySuccess ==
  \A h \in Handlers :
    (hs[h].pc = "done" /\ config.FallbackDNS = NoUpstream /\ AllNamesAbsent(h)) =>
      /\ hs[h].nfwd = 0
      /\ hs[h].written = << Msg(TRUE, "NOERROR", << >>) >>

\* an AAAA question and an A question for a name without a record, no upstream
C7_Witness ==
  \E h \in Handlers :
    /\ hs[h].pc = "done"
    /\ config.FallbackDNS = NoUpstream
    /\ Len(hs[h].r) = 2
    /\ hs[h].r[1].Qtype = "AAAA"
    /\ hs[h].r[2].Qtype = "A"
    /\ AllNamesAbsent(h)
    /\ records.m # EmptyMap
    /\ hs[h].written = << Msg(TRUE, "NOERROR", << >>) >>

(***************************************************************************)
(* The parser/resolver specification: every zone text of at most MaxLines  *)
(* lines is loaded, then single questions are resolved against it.         *)
(***************************************************************************)
ZoneRequests == { << q >> : q \in AllQuestions }

ZoneInit ==
  /\ config = [FallbackDNS |-> NoUpstream]
  /\ fs \in { [text |-> t, mtime |-> 1, state |-> "ok"] : t \in TextsUpTo(MaxLines) }
  /\ pcMain = "load"
  /\ records = NilStore
  /\ stale = {}
  /\ hostsFileModTime = 0
  /\ sup = OffSupervisor
  /\ hs = [h \in Handlers |-> IdleHandler]
  /\ installed = {}
  /\ snapshotModTime = 0

ZoneNext ==
  \/ MainLoad
  \/ MainStat
  \/ MainGo
  \/ \E h \in Handlers, r \in ZoneRequests : Accept(h, r)
  \/ \E h \in Handlers : HandleQuestion(h)
  \/ \E h \in Handlers : Decide(h)
  \/ \E h \in Handlers : Return(h)

ZoneSpec == ZoneInit /\ [][ZoneNext]_vars

\* handler h has resolved the one question of its request
Resolved(h) == Len(hs[h].r) = 1 /\ Len(hs[h].lookups) = 1

\* line j of text is a valid A line whose name has no uppercase letter and is
\* not redefined by a later valid line
IsLastValidALine(text, j) ==
  /\ LineStores(text[j])
  /\ ToUpper(Fields(TrimSpace(text[j]))[4]) = TypeA
  /\ ~HasUpper(LineName(text[j]))
  /\ \A k \in (j + 1)..Len(text) :
       ~(LineStores(text[k]) /\ LineName(text[k]) = LineName(text[j]))

\* the 16-byte form of an address, for comparing addresses
To16(ip) == IF Len(ip) = 4 THEN V4InV6(ip) ELSE ip

\* C8: an A query for the name of a valid A line (not redefined later, no
\* uppercase letter) is answered with one A record carrying the line's IP
\* address and the line's TTL
C8_ValidALineIsAnswered ==
  \A h \in Handlers :
    (Resolved(h) /\ hs[h].r[1].Qtype = "A") =>
      \A j \in 1..Len(fs.text) :
        (/\ IsLastValidALine(fs.text, j)
         /\ Fqdn(ToLower(hs[h].r[1].Name)) = LineName(fs.text[j])) =>
          /\ Len(hs[h].m.Answer) = 1
          /\ hs[h].m.Answer[1].Rrtype = "A"
          /\ hs[h].m.Answer[1].Ttl = ParseUint32(Fields(TrimSpace(fs.text[j]))[2]).val
          /\ To16(hs[h].m.Answer[1].A) = ParseIP(Fields(TrimSpace(fs.text[j]))[5])

\* the stored record the lookup of h's question found is a CNAME
FoundCname(h) ==
  /\ hs[h].lookups[1].found
  /\ hs[h].lookups[1].view[hs[h].lookups[1].name].Type = "CNAME"

\* C9: an A query that finds a CNAME is answered with that CNAME record alone
\* and counts as answered; the alias is not followed
C9_CnameUnderAIsNotFollowed ==
  \A h \in Handlers :
    (Resolved(h) /\ hs[h].r[1].Qtype = "A" /\ FoundCname(h)) =>
      LET rec == hs[h].lookups[1].view[hs[h].lookups[1].name]
      IN  /\ hs[h].answered
          /\ hs[h].m.Answer =
               << RR(hs[h].r[1].Name, "CNAME", rec.TTL, NilIP, rec.Data, << >>, 0, << >>) >>

\* the alias's target has an A record in the same Store, and is not in the answer
C9_Witness ==
  \E h \in Handlers :
    /\ Resolved(h)
    /\ hs[h].r[1].Qtype = "A"
    /\ FoundCname(h)
    /\ LET view == hs[h].lookups[1].view
           rec  == view[hs[h].lookups[1].name]
       IN  /\ rec.Data \in DOMAIN view
           /\ view[rec.Data].Type = "A"
    /\ Len(hs[h].m.Answer) = 1
    /\ hs[h].m.Answer[1].Rrtype = "CNAME"

\* C10: no lookup, for any query name and type, uses a key that holds an
\* uppercase letter, so the record stored under such a key is never returned
C10_MixedCaseNameIsUnreachable ==
  \A h \in Handlers :
    \A i \in 1..Len(hs[h].lookups) :
      \A k \in DOMAIN hs[h].lookups[i].view :
        HasUpper(k) =>
          /\ hs[h].lookups[i].name # k
          /\ (/\ hs[h].lookups[i].name = ToLower(k)
              /\ ToLower(k) \notin DOMAIN hs[h].lookups[i].view
              /\ Len(hs[h].r) = 1) => hs[h].m.Answer = << >>

\* the Store holds "A." only, and the query for "A." found nothing
C10_Witness ==
  \E h \in Handlers :
    /\ Resolved(h)
    /\ hs[h].r[1] = Question(NameUpperA, "A")
    /\ DOMAIN hs[h].lookups[1].view = { NameUpperA }
    /\ ~hs[h].lookups[1].found
    /\ hs[h].m.Answer = << >>

(***************************************************************************)
(* Claims about query types and rcodes.                                    *)
(***************************************************************************)
SupportedQtypes == { "A", "CNAME", "TXT", "MX" }

\* the questions h has resolved so far whose type is unsupported and whose
\* lookup found a record
UnsupportedHits(h) ==
  { i \in 1..Len(hs[h].lookups) :
      hs[h].r[i].Qtype \notin SupportedQtypes /\ hs[h].lookups[i].found }

\* the questions h has resolved so far whose type is supported
SupportedAsked(h) ==
  { i \in 1..Len(hs[h].lookups) : hs[h].r[i].Qtype \in SupportedQtypes }

\* the local reply of h has not been through a failed exchange
LocalReplyUntouched(h) ==
  hs[h].pc = "resolve" \/ (hs[h].pc = "done" /\ hs[h].nfwd = 0)

\* C11: the local reply carries NOTIMPLEMENTED exactly when a question of an
\* unsupported type found a record under its name; such a question adds no
\* answer; and without an upstream a reply with no answered question is
\* written with NOTIMPLEMENTED in that case and with success otherwise
C11_NotImplementedIffUnsupportedHit ==
  \A h \in Handlers :
    /\ LocalReplyUntouched(h) =>
         /\ (hs[h].m.Rcode = "NOTIMP") <=> (UnsupportedHits(h) # {})
         /\ Len(hs[h].m.Answer) <= Cardinality(SupportedAsked(h))
    /\ (hs[h].pc = "done" /\ config.FallbackDNS = NoUpstream /\ ~hs[h].answered) =>
         hs[h].written =
           << Msg(TRUE, IF UnsupportedHits(h) # {} THEN "NOTIMP" ELSE "NOERROR", << >>) >>

\* without an upstream, an AAAA question for a name that has a record and a
\* question for a name that has none were answered with NOTIMPLEMENTED
C11_Witness ==
  \E h \in Handlers :
    /\ hs[h].pc = "done"
    /\ config.FallbackDNS = NoUpstream
    /\ Len(hs[h].r) = 2
    /\ hs[h].r[2].Qtype = "AAAA"
    /\ hs[h].lookups[2].found
    /\ ~hs[h].lookups[1].found
    /\ hs[h].written = << Msg(TRUE, "NOTIMP", << >>) >>

(***************************************************************************)
(* Claims about the parser.                                                *)
(***************************************************************************)
\* the line is neither blank nor a comment and fails one of the validations:
\* fewer than 5 fields, a TTL that is no unsigned 32-bit integer, a class
\* other than IN, an unsupported type, an invalid IP address, an invalid
\* CNAME or MX target, an MX line without a 6th field or with a preference
\* that is no integer
FailsValidation(line) ==
  LET fields == Fields(TrimSpace(line))
  IN  /\ ~IsSkippedLine(line)
      /\ IF Len(fields) < 5 THEN TRUE
         ELSE IF ~ParseUint32(fields[2]).ok THEN TRUE
         ELSE IF ToUpper(fields[3]) # ClassIN THEN TRUE
         ELSE IF ToUpper(fields[4]) = TypeA THEN ParseIP(fields[5]) = NilIP
         ELSE IF ToUpper(fields[4]) = TypeCNAME THEN ~IsDomainName(Fqdn(fields[5]))
         ELSE IF ToUpper(fields[4]) = TypeTXT THEN FALSE
         ELSE IF ToUpper(fields[4]) = TypeMX
           THEN IF Len(fields) < 6 THEN TRUE
                ELSE ~Atoi(fields[5]).ok \/ ~IsDomainName(Fqdn(fields[6]))
         ELSE TRUE

PassesOrSkipped(line) == ~FailsValidation(line)

\* the text without the lines that fail validation
DeleteInvalid(text) == SelectSeq(text, PassesOrSkipped)

\* C12: a line that fails validation leaves the map the loop is filling as it
\* was, and the Store loadZoneFile has just returned is the Store of the same
\* text with the failing lines deleted (so every later line was still parsed)
C12_InvalidLinesAreSkipped ==
  pcMain = "stat" =>
    /\ \A j \in 1..Len(fs.text) :
         FailsValidation(fs.text[j]) => ScanLines(fs.text, j) = ScanLines(fs.text, j - 1)
    /\ records.m = ScanLines(DeleteInvalid(fs.text), Len(DeleteInvalid(fs.text)))

\* the loaded text has a valid line first and then a line for the same name
\* that fails validation, and the Store holds the record of the first line
C12_Witness ==
  /\ pcMain = "stat"
  /\ Len(fs.text) = 2
  /\ LineStores(fs.text[1])
  /\ FailsValidation(fs.text[2])
  /\ Len(Fields(TrimSpace(fs.text[2]))) >= 5
  /\ LineName(fs.text[2]) = LineName(fs.text[1])
  /\ records.m = ScanLines(fs.text, 1)
  /\ DOMAIN records.m = { LineName(fs.text[1]) }

(***************************************************************************)
(* Claims about startup.                                                   *)
(***************************************************************************)
\* main is past its call of loadZoneFile, and the call failed or returned a
\* Store without a record
InitialLoadFailed ==
  \/ pcMain = "fatal"
  \/ pcMain \in { "stat", "go", "serve" } /\ records.m = EmptyMap

\* the process went no further than the initial load
StartupAborted ==
  /\ pcMain = "fatal"
  /\ sup.pc = "off"
  /\ \A h \in Handlers : hs[h] = IdleHandler

\* C13: when the initial load fails, the file being unreadable or yielding a
\* Store with zero records, startup is aborted: the reload supervisor is
\* never started and no query is ever handled
C13_FailedInitialLoadAborts == InitialLoadFailed => StartupAborted

\* the unreadable half of the same statement
C13_UnreadableFileAborts == pcMain = "fatal" => StartupAborted

\* line j of text is valid and no later valid line defines its name again
IsLastValidLine(text, j) ==
  /\ LineStores(text[j])
  /\ \A k \in (j + 1)..Len(text) :
       ~(LineStores(text[k]) /\ LineName(text[k]) = LineName(text[j]))

\* C14: the Store loadZoneFile has just returned holds, for every name a
\* valid line defines, the Record of the last valid line for that name and
\* nothing else, whatever the types of the earlier lines; an A query for a
\* name whose last valid line is a TXT or MX line is not answered
C14_LastValidLineWins ==
  /\ pcMain = "stat" =>
       /\ DOMAIN records.m =
            { LineName(fs.text[j]) : j \in { i \in 1..Len(fs.text) : LineStores(fs.text[i]) } }
       /\ \A j \in 1..Len(fs.text) :
            IsLastValidLine(fs.text, j) =>
              records.m[LineName(fs.text[j])] = LineRecord(Fields(TrimSpace(fs.text[j])))
  /\ \A h \in Handlers :
       (Resolved(h) /\ hs[h].r[1].Qtype = "A") =>
         \A j \in 1..Len(fs.text) :
           (/\ IsLastValidLine(fs.text, j)
            /\ QueryKey(hs[h].r[1].Name) = LineName(fs.text[j])
            /\ ToUpper(Fields(TrimSpace(fs.text[j]))[4]) \in { TypeTXT, TypeMX }) =>
             hs[h].m.Answer = << >> /\ ~hs[h].answered

\* an A line and then a TXT line for the same name were loaded, the Store holds
\* the TXT record alone, and an A query for the name got no answer
C14_Witness ==
  \E h \in Handlers :
    /\ fs.text = << LineA, LineTxt >>
    /\ DOMAIN records.m = { NameA }
    /\ records.m[NameA].Type = "TXT"
    /\ hs[h].pc = "done"
    /\ hs[h].r = << Question(NameA, "A") >>
    /\ hs[h].written = << Msg(TRUE, "NOERROR", << >>) >>

(***************************************************************************)
(* The poll specification: main, the supervisor, and a file whose          *)
(* modification time may also go back.                                     *)
(***************************************************************************)
PollNext ==
  \/ MainLoad
  \/ MainStat
  \/ MainGo
  \/ SupStat
  \/ SupLoad
  \/ SupInstall
  \/ SupSetTime
  \/ Propagate
  \/ \E text \in ZoneVersions, t \in 1..MaxTime : Modify(text, t)
  \/ \E text \in ZoneVersions, t \in 1..MaxTime : Restore(text, t)
  \/ \E c \in FileConditions : SetCondition(c)

PollSpec == Init /\ [][PollNext]_vars

\* the supervisor's os.Stat succeeds and finds a modification time that is
\* equal to the recorded one or older
PollFindsNotNewer ==
  /\ sup.pc = "sleep"
  /\ sup' # sup
  /\ ~StatErr(fs)
  /\ fs.mtime <= hostsFileModTime

\* C15: a poll iteration that finds the file's modification time equal to the
\* recorded one or older does not call the parser and leaves the active
\* snapshot and the recorded modification time as they were; the supervisor
\* enters the parser only from a poll that found a strictly newer time
C15_NotNewerIsNoReload ==
  [][/\ PollFindsNotNewer =>
          /\ sup'.pc = "sleep"
          /\ sup'.newRecords = sup.newRecords
          /\ records' = records
          /\ hostsFileModTime' = hostsFileModTime
     /\ (sup.pc # "load" /\ sup'.pc = "load") =>
          /\ sup.pc = "sleep"
          /\ ~StatErr(fs)
          /\ fs.mtime > hostsFileModTime]_vars

\* a poll found a file older than the recorded time whose text is not the
\* text of the active snapshot, and nothing was reloaded
C15_Witness ==
  /\ sup.pc = "sleep"
  /\ sup.outcome = "notnewer"
  /\ fs.state = "ok"
  /\ sup.info = fs.mtime
  /\ sup.info < hostsFileModTime
  /\ records.m # ScanLines(fs.text, Len(fs.text))

\* the record the lookup of h's one question found
FoundRecord(h) == hs[h].lookups[1].view[hs[h].lookups[1].name]

\* the question's type and the stored record's type do not go together
TypeMismatch(qtype, rtype) ==
  \/ qtype \in { "CNAME", "TXT", "MX" } /\ rtype # qtype
  \/ qtype = "A" /\ rtype \in { "TXT", "MX" }

\* C16: on a Store hit, a CNAME, TXT or MX question is answered exactly when
\* the stored record has the question's type, with one record of that type
\* (an MX answer carrying the stored preference and target); on a mismatch,
\* which for an A question is a stored TXT or MX record, the question adds no
\* answer, leaves the answered flag unset and does not set NOTIMPLEMENTED
C16_StrictTypeMatching ==
  \A h \in Handlers :
    (Resolved(h) /\ hs[h].lookups[1].found) =>
      LET q   == hs[h].r[1]
          rec == FoundRecord(h)
      IN  /\ (q.Qtype \in { "CNAME", "TXT", "MX" } /\ rec.Type = q.Qtype) =>
               /\ hs[h].answered
               /\ Len(hs[h].m.Answer) = 1
               /\ hs[h].m.Answer[1].Rrtype = q.Qtype
               /\ hs[h].m.Answer[1].Ttl = rec.TTL
               /\ q.Qtype = "MX" =>
                    /\ hs[h].m.Answer[1].Preference = rec.Pref
                    /\ hs[h].m.Answer[1].Mx = rec.Data
          /\ TypeMismatch(q.Qtype, rec.Type) =>
               /\ hs[h].m.Answer = << >>
               /\ ~hs[h].answered
               /\ hs[h].m.Rcode = "NOERROR"

\* an MX question found a CNAME record and got the empty local reply with the
\* success rcode
C16_Witness ==
  \E h \in Handlers :
    /\ hs[h].pc = "done"
    /\ Resolved(h)
    /\ hs[h].r[1].Qtype = "MX"
    /\ hs[h].lookups[1].found
    /\ FoundRecord(h).Type = "CNAME"
    /\ ~hs[h].answered
    /\ hs[h].written = << Msg(TRUE, "NOERROR", << >>) >>

\* line j of text is a valid MX line that no later valid line overrides
IsLastValidMXLine(text, j) ==
  /\ IsLastValidLine(text, j)
  /\ ToUpper(Fields(TrimSpace(text[j]))[4]) = TypeMX

\* the integer strconv.Atoi parses from field 5 of a line
ParsedPreference(line) == Atoi(Fields(TrimSpace(line))[5]).val

\* the Store holds, and an MX answer carries, the parsed preference of line j
PreferenceIsKept(text, j) ==
  /\ records.m[LineName(text[j])].Pref = ParsedPreference(text[j])
  /\ \A h \in Handlers :
       (/\ Resolved(h)
        /\ hs[h].r[1].Qtype = "MX"
        /\ QueryKey(hs[h].r[1].Name) = LineName(text[j])) =>
         /\ Len(hs[h].m.Answer) = 1
         /\ hs[h].m.Answer[1].Preference = ParsedPreference(text[j])

\* C17: for every MX line the parser accepts, the preference in the Store and
\* in the MX answer is the integer parsed from field 5, whatever its value,
\* below 0 and above 65535 included
C17_MxPreferenceIsParsedInteger ==
  pcMain \in { "stat", "go", "serve" } =>
    \A j \in 1..Len(fs.text) :
      IsLastValidMXLine(fs.text, j) => PreferenceIsKept(fs.text, j)

\* the same for the preferences a uint16 holds
MxPreferenceInRangeIsKept ==
  pcMain \in { "stat", "go", "serve" } =>
    \A j \in 1..Len(fs.text) :
      (IsLastValidMXLine(fs.text, j) /\ ParsedPreference(fs.text[j]) \in 0..65535) =>
        PreferenceIsKept(fs.text, j)

(***************************************************************************)
(* Claims about the recorded modification time.                            *)
(***************************************************************************)
\* main is past its os.Stat
StartupDone == pcMain \in { "go", "serve" }

\* C18: after startup the recorded modification time is never newer than the
\* modification time of the file version the active snapshot was parsed from,
\* so that a file whose time equals the recorded one is the file the active
\* snapshot holds: no modification is missed for good
C18_RecordedTimeNotNewerThanSnapshot ==
  StartupDone =>
    /\ hostsFileModTime <= snapshotModTime
    /\ hostsFileModTime = fs.mtime => records.m = ScanLines(fs.text, Len(fs.text))

\* the supervisor's steps keep the recorded time not newer than the snapshot's,
\* also when the file is modified while loadZoneFile runs
ReloadKeepsRecordedTimeNotNewer ==
  [][(pcMain = "serve" /\ hostsFileModTime <= snapshotModTime) =>
       hostsFileModTime' <= snapshotModTime']_vars

\* the file was modified between the supervisor's os.Stat and its parse, and
\* the snapshot installed is newer than the time recorded with it
ModifiedWhileReloading ==
  /\ sup.outcome = "reloaded"
  /\ sup.pc = "sleep"
  /\ hostsFileModTime < snapshotModTime

(***************************************************************************)
(* Claims about the reply.                                                 *)
(***************************************************************************)
\* handler h wrote the reply it constructed itself
WroteLocalReply(h) ==
  /\ hs[h].pc = "done"
  /\ ~hs[h].resp.Response
  /\ Len(hs[h].written) = 1

\* C19: a locally constructed reply with a non-empty answer section carries
\* the success rcode, and NOTIMPLEMENTED is only on replies whose answer
\* section is empty, for requests of any number of questions in any order
C19_AnswersCarrySuccess ==
  \A h \in Handlers :
    WroteLocalReply(h) =>
      /\ hs[h].written[1].Answer # << >> => hs[h].written[1].Rcode = "NOERROR"
      /\ hs[h].written[1].Rcode = "NOTIMP" => hs[h].written[1].Answer = << >>

\* the same for requests of one question
SingleQuestionAnswersCarrySuccess ==
  \A h \in Handlers :
    (WroteLocalReply(h) /\ Len(hs[h].r) = 1) =>
      /\ hs[h].written[1].Answer # << >> => hs[h].written[1].Rcode = "NOERROR"
      /\ hs[h].written[1].Rcode = "NOTIMP" => hs[h].written[1].Answer = << >>

\* what handler h has written, once it is about to return: the upstream's
\* reply alone after a successful exchange, the local reply alone otherwise
WroteOneReply(h) ==
  hs[h].written = IF hs[h].resp.Response THEN << hs[h].resp >> ELSE << hs[h].m >>

\* C20: a handled request gets exactly one reply, the upstream's after a
\* successful exchange and the local one on every other path, and nothing is
\* written before; no step of a handler changes the active snapshot or the
\* recorded modification time
C20_OneReplyAndNoSharedWrite ==
  /\ [](\A h \in Handlers :
          /\ hs[h].pc = "done" => WroteOneReply(h)
          /\ hs[h].pc \in { "idle", "resolve", "forward" } => hs[h].written = << >>)
  /\ [][\A h \in Handlers :
          /\ (hs[h].pc # "idle" /\ hs'[h].pc = "idle") => WroteOneReply(h)
          /\ hs'[h] # hs[h] =>
               /\ records' = records
               /\ hostsFileModTime' = hostsFileModTime]_vars

\* an exchange failed and the handler wrote the local SERVFAIL reply alone,
\* with the snapshot and the recorded time as startup left them
C20_Witness ==
  \E h \in Handlers :
    /\ hs[h].pc = "done"
    /\ hs[h].nfwd = 1
    /\ ~hs[h].resp.Response
    /\ Len(hs[h].written) = 1
    /\ hs[h].written[1].Rcode = "SERVFAIL"
    /\ records = Store(ScanLines(fs.text, Len(fs.text)))
    /\ hostsFileModTime = fs.mtime

=============================================================================
